---- MODULE Spec2Model ----
(***************************************************************************)
(* Model of process_assets.py: one asset root with its three trees (root,  *)
(* halfres, quarterres), the manifest, the conversion worker pool and the  *)
(* renumbering pass.                                                       *)
(*                                                                         *)
(* A file name is a record [stem, ext]; the stem is a sequence of          *)
(* characters so that int() and the f-string formatting of slot numbers    *)
(* are computed digit by digit ("07" parses to 7, 7 formats as "7").       *)
(* A file is a record [org, mt]: org is the name of the source file its    *)
(* content was produced from, mt its modification time.  The model is of   *)
(* the pipeline as configured, with DRY_RUN = False.                       *)
(***************************************************************************)
EXTENDS Integers, Sequences, FiniteSets, TLC

\* ---------------------------------------------------------------- bounds
MaxEvents == 5
MaxInitFiles == 3
MaxDim == 10

\* ------------------------------------------------------------- constants
TARGET_EXT == "webp"
Trees == {"full", "half", "quarter"}

\* ----------------------------------------------------------------- names
Digits == <<"0", "1", "2", "3", "4", "5", "6", "7", "8", "9">>

DigitVal(c) == (CHOOSE i \in 1..10 : Digits[i] = c) - 1

\* characters such as U+00B2 (superscript two): str.isdigit() is True for
\* them, int() raises ValueError on them
SuperDigits == {"sup2"}

\* str.isdigit() on a stem
isdigit(s) ==
  /\ Len(s) > 0
  /\ \A i \in 1..Len(s) : s[i] \in SuperDigits \/ \E j \in 1..10 : Digits[j] = s[i]

\* int(name) raises ValueError: name is not a decimal literal
IntRaises(s) == Len(s) = 0 \/ \E i \in 1..Len(s) : \A j \in 1..10 : Digits[j] # s[i]

\* int(name) on a stem of digits
RECURSIVE int(_)
int(s) == IF Len(s) = 0 THEN 0
          ELSE 10 * int(SubSeq(s, 1, Len(s) - 1)) + DigitVal(s[Len(s)])

\* the decimal digits of n as produced by an f-string
RECURSIVE str(_)
str(n) == IF n < 10 THEN <<Digits[n + 1]>>
          ELSE str(n \div 10) \o <<Digits[(n % 10) + 1]>>

Nm(stem, ext) == [stem |-> stem, ext |-> ext]

\* f"{n}{TARGET_EXT}"
SlotName(n) == Nm(str(n), TARGET_EXT)

\* name_no_ext + ".webp"
FinalName(filename) == Nm(filename.stem, TARGET_EXT)

\* f.lower().endswith(TARGET_EXT)
IsWebp(f) == f.ext = TARGET_EXT

\* ------------------------------------------------------------ collections
Empty == <<>>

Put(m, k, v) == [x \in DOMAIN m \cup {k} |-> IF x = k THEN v ELSE m[x]]

Del(m, k) == [x \in DOMAIN m \ {k} |-> m[x]]

Values(m) == {m[k] : k \in DOMAIN m}

RECURSIVE SortedSeq(_)
SortedSeq(S) == IF S = {} THEN <<>>
                ELSE LET lo == CHOOSE x \in S : \A y \in S : x <= y
                     IN <<lo>> \o SortedSeq(S \ {lo})

SeqSet(s) == {s[i] : i \in 1..Len(s)}

\* ------------------------------------------------------------------ state
VARIABLES
  root, half, quarter,    \* the three trees: name -> [org, mt]
  manifestDisk,           \* manifest.json
  totalImages,            \* config.json "totalImages"
  clock,                  \* filesystem time
  pc,                     \* phase of process_directory
  manifest,               \* the in-memory manifest of the running pass
  tasks,                  \* pending filename -> position of its worker task
  files,                  \* the .webp names listed in the root by the renumbering
  existing_nums, gaps, gi, curr_high, others, next_num,  \* renumbering locals
  rn,                     \* last perform_rename_set call: [src, dst, ok, moved]
  adds, deletes, passes,  \* counters of sources added, files deleted, passes started
  dirty, passClean,       \* root changed since last completed pass / pass started clean
  before,                 \* the three trees as the running pass found them
  wrote, renamed,         \* a tier file was written / a file was renamed in this pass
  nfail                   \* number of conversion and rename failures so far

vars == <<root, half, quarter, manifestDisk, totalImages, clock, pc, manifest,
          tasks, files, existing_nums, gaps, gi, curr_high, others, next_num, rn,
          adds, deletes, passes, dirty, passClean, before, wrote, renamed, nfail>>

fsVars == <<root, half, quarter>>

NoTrees == <<Empty, Empty, Empty>>
renumVars == <<files, existing_nums, gaps, gi, curr_high, others, next_num, rn>>
envVars == <<adds, deletes, passes, dirty>>

\* additions, deletions, failures, passes and clock ticks so far, bounded
\* together
Events == adds + deletes + nfail + passes + clock

NoRename == [src |-> Empty, dst |-> Empty, ok |-> FALSE, moved |-> {}]

\* source files the user may drop into the root
SourcePool == {Nm(<<"a">>, "png"), Nm(<<"a">>, "jpg"), Nm(<<"b">>, "png"), Nm(<<"sup2">>, "png")}

\* pixel width and height of the image a dropped source holds
SourceDims(f) == IF f.ext = "jpg" THEN <<1, 3>>
                 ELSE IF f.stem = <<"a">> THEN <<5, 2>> ELSE <<4, 4>>

Tree(t) == IF t = "full" THEN root ELSE IF t = "half" THEN half ELSE quarter

\* ------------------------------------------------------------- discovery
\* glob over *.png, *.jpg, *.jpeg, *.webp directly under the root
RootFiles == {f \in DOMAIN root : f.ext \in {"png", "jpg", "jpeg", "webp"}}

\* a discovery that dispatches every candidate
AllCandidates(m) == RootFiles

\* sources whose base filename is not a manifest value
PendingFiles(m) == {f \in RootFiles : f \notin Values(m)}

\* ---------------------------------------------------------------- manifest
\* if final_name not in manifest: manifest[final_name] = original_name
Record(m, final_name, original_name) ==
  IF final_name \in DOMAIN m THEN m ELSE Put(m, final_name, original_name)

\* if src_name in manifest: manifest[dst_name] = manifest.pop(src_name)
Rekey(m, src_name, dst_name) ==
  IF src_name \in DOMAIN m THEN Put(Del(m, src_name), dst_name, m[src_name]) ELSE m

\* ------------------------------------------------------- perform_rename_set
\* a rename that leaves the source in place (a copy)
MoveFileCopies(tree, src_name, dst_name) == Put(tree, dst_name, tree[src_name])

\* os.rename(s, t) inside one tree; replaces an existing t
MoveFile(tree, src_name, dst_name) ==
  Put(Del(tree, src_name), dst_name, tree[src_name])

\* a rename set without the check of the destination
NeverBlocked(r, dst_name) == FALSE

\* if os.path.exists(dst_path): return False
RenameBlocked(r, dst_name) == dst_name \in DOMAIN r

\* the trees in which os.rename is attempted
RenameAttempts(r, h, q, src_name) ==
  {t \in Trees : src_name \in DOMAIN (IF t = "full" THEN r ELSE IF t = "half" THEN h ELSE q)}

RenameTree(tree, t, src_name, dst_name, blocked, fails) ==
  IF ~blocked /\ src_name \in DOMAIN tree /\ t \notin fails
  THEN MoveFile(tree, src_name, dst_name)
  ELSE tree

RenameOk(blocked, fails) == ~blocked /\ fails = {}

\* ------------------------------------------------------------ freshness
\* target exists and upstream mtime <= target mtime
IsFresh(up_mtime, tree, name) == name \in DOMAIN tree /\ up_mtime <= tree[name].mt

\* ------------------------------------------------------ convert_and_resize
NewFile(org, t, w, h) == [org |-> org, mt |-> t, w |-> w, h |-> h]

\* a halving that lets a dimension reach 0
HalfDimNoFloor(x) == x \div 2

\* max(1, x // 2), the halving applied to each dimension
HalfDim(x) == IF x \div 2 >= 1 THEN x \div 2 ELSE 1

\* needs_process: False when the full tier exists and is not older than the source
NeedsProcess(filename) ==
  ~IsFresh(root[filename].mt, root, FinalName(filename))

\* step 1 writes the full tier iff src_full_path != full_res_target
FullWritten(filename) == filename # FinalName(filename)

\* step 1: convert/copy to the main directory
TaskFull(f) ==
  /\ pc = "convert" /\ f \in DOMAIN tasks /\ tasks[f] = "full"
  /\ IF FullWritten(f)
     THEN /\ root' = Put(root, FinalName(f), NewFile(root[f].org, clock,
                                                   root[f].w, root[f].h))
          /\ wrote' = TRUE
     ELSE UNCHANGED <<root, wrote>>
  /\ tasks' = [tasks EXCEPT ![f] = "half"]
  /\ UNCHANGED <<half, quarter, manifestDisk, totalImages, clock, pc, manifest,
                 renumVars, envVars, passClean, before, renamed, nfail>>

\* step 2: generate half res unless it is fresh against the full tier
TaskHalf(f) ==
  /\ pc = "convert" /\ f \in DOMAIN tasks /\ tasks[f] = "half"
  /\ FinalName(f) \in DOMAIN root
  /\ IF ~IsFresh(root[FinalName(f)].mt, half, FinalName(f))
     THEN /\ half' = Put(half, FinalName(f),
                          NewFile(root[FinalName(f)].org, clock,
                                  HalfDim(root[FinalName(f)].w),
                                  HalfDim(root[FinalName(f)].h)))
          /\ wrote' = TRUE
     ELSE UNCHANGED <<half, wrote>>
  /\ tasks' = [tasks EXCEPT ![f] = "quarter"]
  /\ UNCHANGED <<root, quarter, manifestDisk, totalImages, clock, pc, manifest,
                 renumVars, envVars, passClean, before, renamed, nfail>>

\* step 3: generate quarter res from half res unless it is fresh against half
TaskQuarter(f) ==
  /\ pc = "convert" /\ f \in DOMAIN tasks /\ tasks[f] = "quarter"
  /\ FinalName(f) \in DOMAIN half
  /\ IF ~IsFresh(half[FinalName(f)].mt, quarter, FinalName(f))
     THEN /\ quarter' = Put(quarter, FinalName(f),
                             NewFile(half[FinalName(f)].org, clock,
                                     HalfDim(half[FinalName(f)].w),
                                     HalfDim(half[FinalName(f)].h)))
          /\ wrote' = TRUE
     ELSE UNCHANGED <<quarter, wrote>>
  /\ tasks' = [tasks EXCEPT ![f] = "ok"]
  /\ UNCHANGED <<root, half, manifestDisk, totalImages, clock, pc, manifest,
                 renumVars, envVars, passClean, before, renamed, nfail>>

\* the step the task is at can raise: it decodes, encodes or stats a missing file
CanRaise(f) ==
  \/ tasks[f] = "full" /\ (NeedsProcess(f) \/ FullWritten(f))
  \/ tasks[f] = "half" /\ (FinalName(f) \notin DOMAIN root
                           \/ ~IsFresh(root[FinalName(f)].mt, half, FinalName(f)))
  \/ tasks[f] = "quarter" /\ (FinalName(f) \notin DOMAIN half
                              \/ ~IsFresh(half[FinalName(f)].mt, quarter, FinalName(f)))

\* except Exception: return None
TaskFail(f) ==
  /\ pc = "convert" /\ f \in DOMAIN tasks /\ CanRaise(f)
  /\ Events < MaxEvents
  /\ tasks' = [tasks EXCEPT ![f] = "fail"]
  /\ nfail' = nfail + 1
  /\ UNCHANGED <<fsVars, manifestDisk, totalImages, clock, pc, manifest,
                 renumVars, envVars, passClean, before, wrote, renamed>>

\* ------------------------------------------------------- process_directory
StartPass ==
  /\ pc = "idle" /\ Events < MaxEvents
  /\ manifest' = manifestDisk
  /\ tasks' = [f \in PendingFiles(manifestDisk) |-> "full"]
  /\ pc' = "convert"
  /\ passes' = passes + 1
  /\ passClean' = ~dirty
  /\ before' = fsVars
  /\ wrote' = FALSE /\ renamed' = FALSE
  /\ UNCHANGED <<fsVars, manifestDisk, totalImages, clock, renumVars,
                 adds, deletes, dirty, nfail>>

\* a fold that ignores the None of a failed task
FoldAlways(m, f, state) == Record(m, FinalName(f), f)

\* the result of a finished task, folded into the manifest by the parent
FoldResult(m, f, state) ==
  IF state = "ok" THEN Record(m, FinalName(f), f) ELSE m

\* the call has returned, a (final_name, filename) pair or the None of the
\* except branch, and the parent's loop can receive it
Returned(state) == state \in {"ok", "fail"}

Fold(f) ==
  /\ pc = "convert" /\ f \in DOMAIN tasks /\ Returned(tasks[f])
  /\ manifest' = FoldResult(manifest, f, tasks[f])
  /\ tasks' = [tasks EXCEPT ![f] = IF tasks[f] = "ok" THEN "folded" ELSE "folded_none"]
  /\ UNCHANGED <<fsVars, manifestDisk, totalImages, clock, pc, renumVars,
                 envVars, passClean, before, wrote, renamed, nfail>>

\* a loop that stops as soon as no task is waiting to start
NoneQueued(ts) == \A f \in DOMAIN ts : ts[f] # "full"

\* the imap_unordered loop is exhausted: every task returned and was folded
AllJoined(ts) == \A f \in DOMAIN ts : ts[f] \in {"folded", "folded_none"}

\* ------------------------------------------- standardize_names_and_fill_gaps
\* [f for f in os.listdir(base_dir) if f.lower().endswith(TARGET_EXT)]
ListWebp(r) == {f \in DOMAIN r : IsWebp(f)}

\* the keys of numbered_map
NumberedKeys(fs) == {int(f.stem) : f \in {g \in fs : isdigit(g.stem)}}

OtherFiles(fs) == {f \in fs : ~isdigit(f.stem)}

Max(S) == CHOOSE x \in S : \A y \in S : y <= x

\* gaps counted from the lowest existing slot instead of from 1
GapsAboveLowest(nums) ==
  IF nums = {} THEN {}
  ELSE {i \in (CHOOSE x \in nums : \A y \in nums : x <= y)..(Max(nums) - 1) : i \notin nums}

\* gaps = [i for i in range(1, max_val) if i not in existing_set]
GapsOf(nums) == IF nums = {} THEN {} ELSE {i \in 1..(Max(nums) - 1) : i \notin nums}

\* the partition loop calls int() on a listed name that passed isdigit()
PartitionRaises(fs) == \E f \in fs : isdigit(f.stem) /\ IntRaises(f.stem)

\* listing, partition and gap list; the ValueError of int() is caught nowhere,
\* it ends process_directory before anything is renamed or persisted (the
\* model follows a run up to that point and no further)
StandardizeStart ==
  /\ pc = "convert" /\ AllJoined(tasks)
  /\ IF PartitionRaises(ListWebp(root))
     THEN /\ pc' = "crashed"
          /\ UNCHANGED <<manifest, tasks, before>>
          /\ UNCHANGED renumVars
     ELSE /\ files' = ListWebp(root)
          /\ existing_nums' = SortedSeq(NumberedKeys(ListWebp(root)))
          /\ gaps' = SortedSeq(GapsOf(NumberedKeys(ListWebp(root))))
          /\ gi' = 1
          /\ curr_high' = Cardinality(NumberedKeys(ListWebp(root)))
          /\ others' = OtherFiles(ListWebp(root))
          /\ next_num' = 0
          /\ rn' = NoRename
          /\ pc' = "gaps"
          /\ UNCHANGED <<manifest, tasks, before>>
  /\ UNCHANGED <<fsVars, manifestDisk, totalImages, clock,
                 envVars, passClean, wrote, renamed, nfail>>

\* one perform_rename_set call and the manifest update that depends on it
DoRename(src_name, dst_name, fails) ==
  LET blocked == RenameBlocked(root, dst_name)
      ok == RenameOk(blocked, fails)
      att == IF blocked THEN {} ELSE RenameAttempts(root, half, quarter, src_name)
  IN /\ root' = RenameTree(root, "full", src_name, dst_name, blocked, fails)
     /\ half' = RenameTree(half, "half", src_name, dst_name, blocked, fails)
     /\ quarter' = RenameTree(quarter, "quarter", src_name, dst_name, blocked, fails)
     /\ manifest' = IF ok THEN Rekey(manifest, src_name, dst_name) ELSE manifest
     /\ rn' = [src |-> src_name, dst |-> dst_name, ok |-> ok, moved |-> att \ fails]
     /\ renamed' = (renamed \/ att \ fails # {})
     /\ fails \subseteq att
     /\ Events + Cardinality(fails) <= MaxEvents
     /\ nfail' = nfail + Cardinality(fails)

GapLoopContinues ==
  /\ gi <= Len(gaps) /\ curr_high >= 1
  /\ existing_nums[curr_high] >= gaps[gi]

\* one iteration of the gap-filling loop
GapStep ==
  /\ pc = "gaps" /\ GapLoopContinues
  /\ \E fails \in SUBSET RenameAttempts(root, half, quarter, SlotName(existing_nums[curr_high])) :
       DoRename(SlotName(existing_nums[curr_high]), SlotName(gaps[gi]), fails)
  /\ existing_nums' = [existing_nums EXCEPT ![curr_high] = gaps[gi]]
  /\ curr_high' = curr_high - 1
  /\ gi' = gi + 1
  /\ UNCHANGED <<manifestDisk, totalImages, clock, pc, tasks, files, gaps, others,
                 next_num, envVars, passClean, before, wrote>>

NextNum(nums) == IF nums = {} THEN 1 ELSE Max(nums) + 1

\* re-sort after gap filling and pick the first slot for the "others"
GapsDone ==
  /\ pc = "gaps" /\ ~GapLoopContinues
  /\ existing_nums' = SortedSeq(SeqSet(existing_nums))
  /\ next_num' = NextNum(SeqSet(existing_nums))
  /\ pc' = "others"
  /\ UNCHANGED <<fsVars, manifestDisk, totalImages, clock, manifest, tasks, files, gaps,
                 gi, curr_high, others, rn, envVars, passClean, before, wrote, renamed, nfail>>

\* one iteration of the loop over the non-numeric .webp files
OtherStep ==
  /\ pc = "others"
  /\ \E f \in others :
       /\ \E fails \in SUBSET RenameAttempts(root, half, quarter, f) :
            DoRename(f, SlotName(next_num), fails)
       /\ others' = others \ {f}
  /\ next_num' = next_num + 1
  /\ UNCHANGED <<manifestDisk, totalImages, clock, pc, tasks, files, existing_nums,
                 gaps, gi, curr_high, envVars, passClean, before, wrote>>

\* return next_num - 1, then update_config_and_manifest
Persist ==
  /\ pc = "others" /\ others = {}
  /\ manifestDisk' = manifest
  /\ totalImages' = next_num - 1
  /\ pc' = "idle"
  /\ dirty' = FALSE
  /\ manifest' = Empty /\ tasks' = Empty
  /\ files' = {} /\ existing_nums' = <<>> /\ gaps' = <<>> /\ gi' = 1 /\ curr_high' = 0
  /\ others' = {} /\ next_num' = 0 /\ rn' = NoRename
  /\ before' = NoTrees
  /\ UNCHANGED <<fsVars, clock, adds, deletes, passes, passClean, wrote,
                 renamed, nfail>>

\* ------------------------------------------------------------ environment
\* the user drops a source file into the root
AddSource(f) ==
  /\ pc = "idle" /\ Events < MaxEvents /\ f \notin DOMAIN root
  /\ root' = Put(root, f, NewFile(f, clock, SourceDims(f)[1], SourceDims(f)[2]))
  /\ adds' = adds + 1
  /\ dirty' = TRUE
  /\ UNCHANGED <<half, quarter, manifestDisk, totalImages, clock, pc, manifest,
                 tasks, renumVars, deletes, passes, passClean, before, wrote, renamed, nfail>>

\* out-of-band deletion of one file of one tree
DeleteFile(t, f) ==
  /\ pc = "idle" /\ Events < MaxEvents /\ f \in DOMAIN Tree(t)
  /\ root' = IF t = "full" THEN Del(root, f) ELSE root
  /\ half' = IF t = "half" THEN Del(half, f) ELSE half
  /\ quarter' = IF t = "quarter" THEN Del(quarter, f) ELSE quarter
  /\ deletes' = deletes + 1
  /\ dirty' = TRUE
  /\ UNCHANGED <<manifestDisk, totalImages, clock, pc, manifest, tasks, renumVars,
                 adds, passes, passClean, before, wrote, renamed, nfail>>

\* filesystem time advances while workers are running
Tick ==
  /\ pc = "convert" /\ \E f \in DOMAIN tasks : tasks[f] \in {"full", "half", "quarter"}
  /\ Events < MaxEvents
  /\ \E t \in Trees : \E f \in DOMAIN Tree(t) : Tree(t)[f].mt = clock
  /\ clock' = clock + 1
  /\ UNCHANGED <<fsVars, manifestDisk, totalImages, pc, manifest, tasks, renumVars,
                 envVars, passClean, before, wrote, renamed, nfail>>

\* ---------------------------------------------------------- specification
Init ==
  /\ root = Empty /\ half = Empty /\ quarter = Empty
  /\ manifestDisk = Empty /\ totalImages = 0
  /\ clock = 0
  /\ pc = "idle"
  /\ manifest = Empty /\ tasks = Empty
  /\ files = {} /\ existing_nums = <<>> /\ gaps = <<>> /\ gi = 1 /\ curr_high = 0
  /\ others = {} /\ next_num = 0 /\ rn = NoRename
  /\ adds = 0 /\ deletes = 0 /\ passes = 0
  /\ dirty = TRUE /\ passClean = FALSE /\ before = NoTrees
  /\ wrote = FALSE /\ renamed = FALSE /\ nfail = 0

Next ==
  \/ \E f \in SourcePool : AddSource(f)
  \/ \E t \in Trees : \E f \in DOMAIN Tree(t) : DeleteFile(t, f)
  \/ Tick
  \/ StartPass
  \/ \E f \in DOMAIN tasks : TaskFull(f)
  \/ \E f \in DOMAIN tasks : TaskHalf(f)
  \/ \E f \in DOMAIN tasks : TaskQuarter(f)
  \/ \E f \in DOMAIN tasks : TaskFail(f)
  \/ \E f \in DOMAIN tasks : Fold(f)
  \/ StandardizeStart
  \/ GapStep
  \/ GapsDone
  \/ OtherStep
  \/ Persist

Spec == Init /\ [][Next]_vars

\* ------------------------------------------- the renumbering on its own
\* .webp names the root may hold when the renumbering starts: canonical slot
\* names, slot 0, a name with a leading zero, and two non-numeric names
RenumPool ==
  {SlotName(0), SlotName(1), SlotName(2), SlotName(3), SlotName(4), SlotName(9),
   Nm(<<"0", "3">>, TARGET_EXT), Nm(<<"sup2">>, TARGET_EXT),
   Nm(<<"a">>, TARGET_EXT), Nm(<<"b">>, TARGET_EXT)}

\* the source a manifest entry of the starting state names for key k
SrcOf(k) == Nm(<<"s">> \o k.stem, "png")

\* manifest keys of the starting state: files of the root and one stale key
StaleKey == SlotName(1)

InitRenumber ==
  /\ \E S \in SUBSET RenumPool :
       /\ Cardinality(S) <= MaxInitFiles
       /\ root = [f \in S |-> NewFile(SrcOf(f), 0, 4, 4)]
       /\ half = [f \in S |-> NewFile(SrcOf(f), 0, 2, 2)]
       /\ quarter = [f \in S |-> NewFile(SrcOf(f), 0, 1, 1)]
       /\ \E K \in SUBSET (S \cup {StaleKey}) : manifest = [k \in K |-> SrcOf(k)]
       /\ adds = Cardinality(S)
  /\ manifestDisk = Empty /\ totalImages = 0
  /\ clock = 0
  /\ pc = "convert"
  /\ tasks = Empty
  /\ files = {} /\ existing_nums = <<>> /\ gaps = <<>> /\ gi = 1 /\ curr_high = 0
  /\ others = {} /\ next_num = 0 /\ rn = NoRename
  /\ deletes = 0 /\ passes = 1
  /\ dirty = TRUE /\ passClean = FALSE /\ before = NoTrees
  /\ wrote = FALSE /\ renamed = FALSE /\ nfail = 0

NextRenumber ==
  \/ StandardizeStart
  \/ GapStep
  \/ GapsDone
  \/ OtherStep
  \/ Persist

SpecRenumber == InitRenumber /\ [][NextRenumber]_vars

\* --------------------------------------------- one conversion, drawn sizes
\* a lower-tier file left by an earlier run, of unrelated size
OldTier(t) == NewFile(Nm(<<"old">>, "png"), t, 7, 7)

\* the root holds one source of W x H pixels; the lower tiers of its target
\* name are missing, older than the source or as recent as it
InitResize ==
  /\ \E W \in 1..MaxDim, H \in 1..MaxDim :
       root = (Nm(<<"a">>, "png") :> NewFile(Nm(<<"a">>, "png"), 1, W, H))
  /\ \E T \in SUBSET {0, 1} :
       \/ T = {} /\ half = Empty
       \/ \E t \in T : half = (Nm(<<"a">>, TARGET_EXT) :> OldTier(t))
  /\ \E T \in SUBSET {0, 1} :
       \/ T = {} /\ quarter = Empty
       \/ \E t \in T : quarter = (Nm(<<"a">>, TARGET_EXT) :> OldTier(t))
  /\ manifestDisk = Empty /\ totalImages = 0
  /\ clock = 1
  /\ pc = "convert"
  /\ manifest = Empty
  /\ tasks = (Nm(<<"a">>, "png") :> "full")
  /\ files = {} /\ existing_nums = <<>> /\ gaps = <<>> /\ gi = 1 /\ curr_high = 0
  /\ others = {} /\ next_num = 0 /\ rn = NoRename
  /\ adds = 1 /\ deletes = 0 /\ passes = 1
  /\ dirty = TRUE /\ passClean = FALSE /\ before = NoTrees
  /\ wrote = FALSE /\ renamed = FALSE /\ nfail = 0

NextResize ==
  \E f \in DOMAIN tasks :
    \/ TaskFull(f)
    \/ TaskHalf(f)
    \/ TaskQuarter(f)
    \/ TaskFail(f)
    \/ Fold(f)

SpecResize == InitResize /\ [][NextResize]_vars

\* ---------------------------------------------------- scheduling of a pass
\* a step of the running pass: a worker advances or fails a task, the parent
\* folds a result, the renumbering runs a loop iteration, the pass persists
PassStep ==
  \/ \E f \in DOMAIN tasks :
       TaskFull(f) \/ TaskHalf(f) \/ TaskQuarter(f) \/ TaskFail(f) \/ Fold(f)
  \/ StandardizeStart
  \/ GapStep
  \/ GapsDone
  \/ OtherStep
  \/ Persist

\* the pool runs every queued task and the parent's loops are not suspended:
\* a pass that can take a step eventually takes one
SpecLive == Spec /\ WF_vars(PassStep)

\* ================================================================ claims
\* the renumbering has run all its loops and is about to return
Renumbered == pc = "others" /\ others = {}

NumericFiles(fs) == {f \in fs : isdigit(f.stem)}

Min(S) == CHOOSE x \in S : \A y \in S : x <= y

CountVal(m, v) == Cardinality({k \in DOMAIN m : m[k] = v})

\* a step of the renumbering that called perform_rename_set
RenameStep ==
  /\ pc \in {"gaps", "others"} /\ pc' = pc
  /\ (gi' # gi \/ next_num' # next_num)

\* C1 (as claimed): after a completed pass, every manifest key whose file
\* exists in the root tier maps to the source file the content of that root
\* file was produced from.
C1_Provenance ==
  (pc = "idle" /\ passes >= 1) =>
    \A k \in DOMAIN manifestDisk :
      k \in DOMAIN root => manifestDisk[k] = root[k].org

\* C2 (as claimed): a successful rename pair that moved the root file leaves
\* the number of manifest entries and the multiset of manifest values as
\* they were.
C2_Conservation ==
  [][(RenameStep /\ rn'.ok /\ "full" \in rn'.moved) =>
       /\ Cardinality(DOMAIN manifest') = Cardinality(DOMAIN manifest)
       /\ \A v \in Values(manifest) \cup Values(manifest') :
            CountVal(manifest', v) = CountVal(manifest, v)]_vars

\* C3 (as claimed): after the renumbering, with no rename having failed, the
\* numeric names of the root tier start at slot 1 and have no gap below the
\* highest slot.
C3_Dense ==
  (Renumbered /\ nfail = 0) =>
    LET N == NumberedKeys(ListWebp(root))
    IN N # {} => /\ \A k \in 1..(Max(N) - 1) : k \in N
                 /\ Min(N) = 1

\* C4 (as claimed): after the first pass over N new sources dropped into an
\* empty root, with no failure and no deletion, the root tier holds exactly
\* the numeric names 1..N.
C4_Convergence ==
  (pc = "idle" /\ passes = 1 /\ nfail = 0 /\ deletes = 0 /\ ~dirty) =>
    ListWebp(root) = {SlotName(k) : k \in 1..adds}

\* C5 (as claimed): a pass that starts on a root unchanged since the previous
\* pass, with no failure in either, writes no tier file, renames nothing and
\* ends with the manifest it loaded.
C5_Idempotence ==
  (Renumbered /\ passClean /\ nfail = 0) =>
    ~wrote /\ ~renamed /\ manifest = manifestDisk

\* the root tier listed by the renumbering holds exactly the numeric files
\* 3.webp and 9.webp
Scenario39 == NumericFiles(files) = {SlotName(3), SlotName(9)}

\* the manifest value that was under key k when the renumbering started is
\* now under key k2
Rekeyed(k, k2) ==
  SrcOf(k) \in Values(manifest) => (k2 \in DOMAIN manifest /\ manifest[k2] = SrcOf(k))

\* the file that was k when the renumbering started is now k2
MovedTo(k, k2) == k2 \in DOMAIN root /\ root[k2].org = SrcOf(k)

\* C6 (as claimed): with exactly the numeric files 3 and 9, after the
\* renumbering file 3 kept its name, file 9 is named 4 and the manifest value
\* formerly under key 9 is under key 4.
C6_Original ==
  (Renumbered /\ Scenario39 /\ nfail = 0) =>
    /\ MovedTo(SlotName(3), SlotName(3))
    /\ MovedTo(SlotName(9), SlotName(4))
    /\ SlotName(9) \notin DOMAIN root
    /\ Rekeyed(SlotName(9), SlotName(4))

\* C6 (amended): with exactly the numeric files 3 and 9 and no rename
\* failing, after the renumbering file 9 is named 1 and file 3 is named 2,
\* neither is left under its old name, and the manifest values formerly
\* under keys 9 and 3 are under keys 1 and 2.
C6_GapScenario ==
  (Renumbered /\ Scenario39 /\ nfail = 0) =>
    /\ MovedTo(SlotName(9), SlotName(1))
    /\ MovedTo(SlotName(3), SlotName(2))
    /\ ~MovedTo(SlotName(3), SlotName(3)) /\ ~MovedTo(SlotName(9), SlotName(9))
    /\ Rekeyed(SlotName(9), SlotName(1))
    /\ Rekeyed(SlotName(3), SlotName(2))

C6_Witness ==
  /\ Renumbered /\ Scenario39 /\ nfail = 0
  /\ SlotName(1) \in DOMAIN manifest /\ manifest[SlotName(1)] = SrcOf(SlotName(9))
  /\ MovedTo(SlotName(9), SlotName(1))

\* every numeric name listed is the canonical name of a slot >= 1
Canonical(fs) ==
  \A f \in NumericFiles(fs) : int(f.stem) >= 1 /\ f = SlotName(int(f.stem))

\* the integers below the highest listed slot that no listed name parses to
ListedGaps == {i \in 1..(Max(NumberedKeys(files)) - 1) : i \notin NumberedKeys(files)}

\* C7 (as claimed): for every gap g below the highest listed slot h, after a
\* renumbering in which nothing failed and nothing was blocked, slot g is
\* occupied, h is vacated unless a new file was appended there, and no file
\* of a slot below g was renamed or changed.
C7_Original ==
  (Renumbered /\ nfail = 0 /\ Canonical(files) /\ NumberedKeys(files) # {}) =>
    \A g \in ListedGaps :
      /\ SlotName(g) \in DOMAIN root
      /\ \A f \in NumericFiles(files) : int(f.stem) < g => MovedTo(f, f)

\* C7 (amended): with g the lowest gap and h the highest listed slot, the
\* first rename pair is (h -> g); when h.webp exists and the pair is neither
\* blocked nor fails, g.webp becomes the file that was h.webp and h.webp is
\* vacated by it; no step of the renumbering renames or changes a numeric
\* file of a slot below g, and once filled g.webp keeps that file.
C7_GapFill ==
  [][(RenameStep /\ NumberedKeys(files) # {} /\ ListedGaps # {}) =>
       LET g == Min(ListedGaps)
           h == Max(NumberedKeys(files))
       IN /\ (pc = "gaps" /\ gi = 1) =>
               /\ rn'.src = SlotName(h) /\ rn'.dst = SlotName(g)
               /\ (rn'.ok /\ SlotName(h) \in DOMAIN root) =>
                    /\ SlotName(g) \in DOMAIN root'
                    /\ root'[SlotName(g)] = root[SlotName(h)]
                    /\ SlotName(h) \notin DOMAIN root'
          /\ \A f \in NumericFiles(DOMAIN root) :
               (int(f.stem) < g \/ (f = SlotName(g) /\ ~(pc = "gaps" /\ gi = 1))) =>
                 f \in DOMAIN root' /\ root'[f] = root[f]]_vars

C7_Witness ==
  /\ pc = "gaps" /\ gi = 2 /\ rn.ok /\ "full" \in rn.moved
  /\ rn.dst \in DOMAIN root /\ rn.src \notin DOMAIN root
  /\ \E f \in NumericFiles(DOMAIN root) : int(f.stem) < int(rn.dst.stem)

Running(f) == tasks[f] \in {"full", "half", "quarter"}

\* the tier paths a task writes
Targets(f) ==
  {<<t, FinalName(f)>> : t \in (IF FullWritten(f) THEN Trees ELSE {"half", "quarter"})}

\* C8 (as claimed): no two concurrently running tasks write the same tier
\* path, and no running task reads as its source a path another one writes.
C8_Disjoint ==
  \A f \in DOMAIN tasks : \A g \in DOMAIN tasks :
    (f # g /\ pc = "convert" /\ Running(f) /\ Running(g)) =>
      /\ Targets(f) \cap Targets(g) = {}
      /\ <<"full", f>> \notin Targets(g)

\* C9: while the renumbering lists or renames files, every dispatched task
\* has returned and its result has been folded into the manifest.
C9_JoinBarrier ==
  pc \in {"gaps", "others"} =>
    \A f \in DOMAIN tasks : tasks[f] \in {"folded", "folded_none"}

C9_Witness ==
  /\ pc \in {"gaps", "others"} /\ "full" \in rn.moved
  /\ Cardinality(DOMAIN tasks) >= 2
  /\ \E f \in DOMAIN tasks : tasks[f] = "folded" /\ FullWritten(f)

\* C10: during the conversion step a failed asset has no manifest entry
\* naming it, every asset that succeeded has its final name recorded, every
\* entry loaded at the start of the pass is still there with its value, and
\* the renumbering starts only when all other assets of the batch have been
\* processed.
C10_FailureIsolation ==
  /\ pc = "convert" =>
       /\ \A f \in DOMAIN tasks :
            /\ tasks[f] = "folded_none" => f \notin Values(manifest)
            /\ tasks[f] = "folded" => FinalName(f) \in DOMAIN manifest
       /\ \A k \in DOMAIN manifestDisk :
            k \in DOMAIN manifest /\ manifest[k] = manifestDisk[k]
  /\ (pc \in {"gaps", "others"} /\ \E f \in DOMAIN tasks : tasks[f] = "folded_none") =>
       \A g \in DOMAIN tasks : tasks[g] \notin {"full", "half", "quarter", "ok", "fail"}

C10_Witness ==
  /\ pc = "convert"
  /\ \E f \in DOMAIN tasks : tasks[f] = "folded_none"
  /\ \E g \in DOMAIN tasks :
       /\ tasks[g] = "folded" /\ g \notin Values(manifestDisk)
       /\ manifest[FinalName(g)] = g

\* the file a tree holds under a name, as a set with at most one element
At(tree, name) == IF name \in DOMAIN tree THEN {tree[name]} ELSE {}

\* the task of f has returned None (its exception was caught)
Failed(f) == f \in DOMAIN tasks /\ tasks[f] \in {"fail", "folded_none"}

\* no other task of the pass writes the tier files of the task of f
SoleWriter(f) == \A g \in DOMAIN tasks \ {f} : FinalName(g) # FinalName(f)

\* C11: when the conversion of an asset fails, at whichever step, the full,
\* half and quarter files of that asset are exactly as they were before the
\* call (here: as the pass found them, the asset having no other writer).
C11_Unchanged ==
  pc = "convert" =>
    \A f \in DOMAIN tasks :
      (Failed(f) /\ SoleWriter(f)) =>
        \A i \in 1..3 : At(fsVars[i], FinalName(f)) = At(before[i], FinalName(f))

\* C12: every pass eventually reaches persistence, whatever conversions and
\* renames fail in it: no failure of a per-asset or per-pair unit stops it.
C12_PassCompletes == (pc # "idle") ~> (pc = "idle")

\* step 1 of the task of f runs in this step
FullStep(f) == pc = "convert" /\ tasks[f] = "full" /\ tasks'[f] = "half"

PassDone == pc = "idle" /\ passes >= 1 /\ ~dirty

\* C14: after any completed pass the numeric names in the half tree and in
\* the quarter tree each equal the numeric names in the root.
C14_Mirror ==
  PassDone =>
    /\ NumericFiles(DOMAIN half) = NumericFiles(ListWebp(root))
    /\ NumericFiles(DOMAIN quarter) = NumericFiles(ListWebp(root))

\* C15: the value the renumbering returns (persisted as totalImages) equals
\* the highest numeric slot in the root after renumbering and equals the number
\* of numeric files there, also when a rename was skipped or failed (stated
\* for roots whose numeric names are the slot names of numbers from 1 up).
C15_Total ==
  (Renumbered /\ Canonical(files)) =>
    LET N == NumericFiles(ListWebp(root))
    IN /\ next_num - 1 = Cardinality(N)
       /\ next_num - 1 = (IF N = {} THEN 0 ELSE Max(NumberedKeys(N)))

\* max(1, x)
AtLeast1(x) == IF x >= 1 THEN x ELSE 1

\* the call for f returned its pair and both lower tiers under its target
\* name were regenerated from the image of f
Regenerated(f) ==
  /\ tasks[f] \in {"ok", "folded"}
  /\ half[FinalName(f)].org = f
  /\ quarter[FinalName(f)].org = f

\* C16: for an image of W x H pixels, W and H at least 1, after a successful
\* conversion that regenerates both lower tiers the half tier has size
\* (max(1, W // 2), max(1, H // 2)) and the quarter tier, obtained by halving
\* the half tier, has size (max(1, W // 4), max(1, H // 4)).
C16_Chaining ==
  \A f \in DOMAIN tasks :
    Regenerated(f) =>
      LET W == root[FinalName(f)].w
          H == root[FinalName(f)].h
      IN /\ W >= 1 /\ H >= 1
         /\ half[FinalName(f)].w = AtLeast1(W \div 2)
         /\ half[FinalName(f)].h = AtLeast1(H \div 2)
         /\ quarter[FinalName(f)].w = AtLeast1(W \div 4)
         /\ quarter[FinalName(f)].h = AtLeast1(H \div 4)

\* both tiers were regenerated for an image one pixel wide and six high, so
\* that the floor at 1 and the plain quartering both take part
C16_Witness ==
  \E f \in DOMAIN tasks :
    /\ Regenerated(f)
    /\ root[FinalName(f)].w = 1 /\ root[FinalName(f)].h = 6
    /\ quarter[FinalName(f)].w = 1 /\ quarter[FinalName(f)].h = 1

\* the sources the manifest loaded by the running pass names as ingested
Ingested == Values(manifestDisk)

\* C17: a candidate whose base filename is a value of the manifest loaded at
\* the start of the pass is never dispatched, whether or not the files derived
\* from it still exist, and no pass writes a full-tier file from such a
\* source: a source with a manifest entry produces no further slot.
C17_Filter ==
  [][/\ pc' # "idle" => \A f \in DOMAIN tasks' : f \notin Ingested'
     /\ pc = "convert" =>
          \A n \in DOMAIN root' :
            At(root', n) # At(root, n) => root'[n].org \notin Ingested]_vars

\* a pass is running in which an ingested source lies in the root, the file
\* recorded for it is gone from the root, and the source was not dispatched
C17_Witness ==
  /\ pc = "convert"
  /\ \E f \in RootFiles :
       /\ f \in Ingested /\ f \notin DOMAIN tasks
       /\ \A k \in DOMAIN manifestDisk : manifestDisk[k] = f => k \notin DOMAIN root

\* the loop that made the call goes on to its next pair
NextPair ==
  \/ pc = "gaps" /\ pc' = "gaps" /\ gi' = gi + 1 /\ curr_high' = curr_high - 1
  \/ /\ pc = "others" /\ pc' = "others" /\ next_num' = next_num + 1
     /\ \E f \in others : others' = others \ {f}

\* C18: when perform_rename_set is called with a destination name that exists
\* in the root, no file is renamed in any tree, the manifest entry is not
\* rekeyed, no exception is raised and the renumbering continues with the next
\* pair.
C18_Collision ==
  [][(RenameStep /\ rn'.dst \in DOMAIN root) =>
       /\ fsVars' = fsVars
       /\ manifest' = manifest
       /\ ~rn'.ok /\ rn'.moved = {}
       /\ NextPair]_vars

\* the last call found its destination in the root: source and destination
\* both lie in the root, the source has a manifest entry, nothing was moved
C18_Witness ==
  /\ pc \in {"gaps", "others"}
  /\ rn.src \in DOMAIN root /\ rn.dst \in DOMAIN root /\ rn.src # rn.dst
  /\ rn.src \in DOMAIN manifest
  /\ ~rn.ok /\ rn.moved = {}

\* C19: in every reachable state, if the half file of a name is fresh against
\* the full file and the quarter file is fresh against the half file (equal
\* timestamps included), the quarter file was computed from the image the half
\* file now holds.
C19_QuarterFromHalf ==
  \A n \in DOMAIN root \cap DOMAIN half \cap DOMAIN quarter :
    (IsFresh(root[n].mt, half, n) /\ IsFresh(half[n].mt, quarter, n)) =>
      quarter[n].org = half[n].org

\* C20: no rename of the renumbering replaces a file that exists at the
\* destination name, in any of the three trees: a tree in which the call moved
\* a file held no file of the destination name before the call.
C20_NoOverwrite ==
  [][RenameStep => \A t \in rn'.moved : rn'.dst \notin DOMAIN Tree(t)]_vars
====
